---- MODULE Spec2Model ----
(***************************************************************************)
(* Verification model of the document-to-assessment pipeline of            *)
(* english-elearning: backend/app/utils/question_generator.py, the         *)
(* extractors and the text normaliser of backend/app/utils/file_parser.py, *)
(* the lecture and assignment handlers of backend/app/main.py, the speech  *)
(* cache of backend/app/utils/tts.py and the socket manager of             *)
(* backend/app/ws.py.                                                      *)
(*                                                                         *)
(* A Python str is a sequence of one-character strings.  The NLTK          *)
(* tokenisers and the `random` module are library code: they are modelled  *)
(* by what they do on the alphabet of the corpus below (ASCII letters,     *)
(* digits, underscore, space, tab, '.', ',', '!', '?', '#').               *)
(***************************************************************************)
EXTENDS Integers, Sequences, FiniteSets, TLC

VARIABLES
    rng,        \* the state of the random module's generator
    pc,         \* pc[p]: where call p stands
    text,       \* text[p]: the text argument
    arg,        \* arg[p]: the config argument as passed
    config,     \* config[p]: the local config after lines 138-144
    start,      \* start[p]: the generator state when the call began
    selected,   \* selected[p]: fill-blank sentences still to be processed
    keywords,   \* keywords[p]: the keyword list of the multiple-choice loop
    todo,       \* todo[p]: correct keywords still to be processed
    result,     \* result[p]: the question lists built so far
    kw,         \* the last direct call of extract_keywords
    cleaned,    \* the last direct call of clean_text
    parsed,     \* the last call of extract_text_from_file
    lectures,   \* the rows of the table lectures: their extracted_text
    quiz,       \* the rows of the table quiz_questions
    synthesized, \* the last invocation of generate_all_questions by a handler
    response,   \* the last HTTP response, and how many requests were served
    audio,      \* the files of AUDIO_DIR: what each path holds
    spoken,     \* the last call of text_to_speech
    handed,     \* the paths text_to_speech has returned, by text and lang
    active,     \* WSManager.active: username -> set of sockets
    pushing,    \* the locals of the running WSManager.push, if any
    wsop        \* the last step of a WSManager method

vars ==
    << rng, pc, text, arg, config, start, selected, keywords, todo, result, kw,
       cleaned, parsed, lectures, quiz, synthesized, response,
       audio, spoken, handed, active, pushing, wsop >>

\* the state of the question generator, and the state outside of it
generator ==
    << rng, pc, text, arg, config, start, selected, keywords, todo, result, kw >>

outside ==
    << cleaned, parsed, lectures, quiz, synthesized, response,
       audio, spoken, handed, active, pushing, wsop >>

\* the state of the parser and of the lecture handlers, of the speech
\* cache, and of the socket manager
documents == << cleaned, parsed, lectures, quiz, synthesized, response >>

speech == << audio, spoken, handed >>

sockets == << active, pushing, wsop >>

\* ------------------------------------------------------------------------
\* Characters and strings
\* ------------------------------------------------------------------------
LowerLetters ==
    << "a","b","c","d","e","f","g","h","i","j","k","l","m",
       "n","o","p","q","r","s","t","u","v","w","x","y","z" >>

UpperLetters ==
    << "A","B","C","D","E","F","G","H","I","J","K","L","M",
       "N","O","P","Q","R","S","T","U","V","W","X","Y","Z" >>

Digits == {"0","1","2","3","4","5","6","7","8","9"}

Range(s) == {s[i] : i \in DOMAIN s}

Alpha == Range(LowerLetters) \cup Range(UpperLetters)

\* regex \w : letters, digits and the underscore
WordChars == Alpha \cup Digits \cup {"_"}

\* regex \s
Whitespace == {" ", "\t", "\n"}

\* the punctuation clean_text keeps: . , ! ? ; : ' " -
KeptPunct == {".", ",", "!", "?", ";", ":", "'", "\"", "-"}

\* str.lower() on one character
LowerChar(c) ==
    IF \E i \in DOMAIN UpperLetters : UpperLetters[i] = c
    THEN LowerLetters[CHOOSE i \in DOMAIN UpperLetters : UpperLetters[i] = c]
    ELSE c

\* str.lower()
Lower(s) == [i \in DOMAIN s |-> LowerChar(s[i])]

\* str.isalpha(): non-empty and every character a letter
IsAlpha(w) == Len(w) > 0 /\ \A i \in DOMAIN w : w[i] \in Alpha

Min(a, b) == IF a < b THEN a ELSE b

\* s[:n]
Take(s, n) == SubSeq(s, 1, Min(n, Len(s)))

\* s[n:]
Drop(s, n) == SubSeq(s, n + 1, Len(s))

\* str.find(sub): the least 1-based start of an occurrence of sub in s, 0 if none
Find(s, sub) ==
    LET starts == {i \in 1..(Len(s) - Len(sub) + 1) :
                      SubSeq(s, i, i + Len(sub) - 1) = sub}
    IN IF starts = {} THEN 0
       ELSE CHOOSE i \in starts : \A j \in starts : i <= j

\* a replacement that takes the last occurrence of old
ReplaceFirst_LastOccurrence(s, old, new) ==
    LET starts == {i \in 1..(Len(s) - Len(old) + 1) :
                      SubSeq(s, i, i + Len(old) - 1) = old}
        i == CHOOSE i \in starts : \A j \in starts : i >= j
    IN IF starts = {} THEN s
       ELSE SubSeq(s, 1, i - 1) \o new \o SubSeq(s, i + Len(old), Len(s))

\* str.replace(old, new, 1): the first occurrence of old replaced by new
ReplaceFirst(s, old, new) ==
    LET i == Find(s, old)
    IN IF i = 0 THEN s
       ELSE SubSeq(s, 1, i - 1) \o new \o SubSeq(s, i + Len(old), Len(s))

RECURSIVE Occurrences(_, _)
\* str.count(sub): the number of non-overlapping occurrences of sub in s
Occurrences(s, sub) ==
    LET i == Find(s, sub)
    IN IF i = 0 THEN 0 ELSE 1 + Occurrences(Drop(s, i + Len(sub) - 1), sub)

\* ------------------------------------------------------------------------
\* Scanning a string
\* ------------------------------------------------------------------------
RECURSIVE Ascending(_, _, _)
\* the members of the set S of integers that lie in lo..hi, in increasing order
Ascending(S, lo, hi) ==
    IF lo > hi THEN << >>
    ELSE IF lo = hi THEN (IF lo \in S THEN << lo >> ELSE << >>)
    ELSE LET mid == (lo + hi) \div 2
         IN Ascending(S, lo, mid) \o Ascending(S, mid + 1, hi)

\* the first position >= i of s that holds no whitespace, Len(s) + 1 if none
SkipWs(s, i) ==
    LET rest == {j \in i..Len(s) : s[j] \notin Whitespace}
    IN IF rest = {} THEN Len(s) + 1
       ELSE CHOOSE j \in rest : \A k \in rest : j <= k

\* ------------------------------------------------------------------------
\* file_parser.clean_text
\* ------------------------------------------------------------------------
\* s[i] is not whitespace, or it starts a run of whitespace
StartsRunOrText(s, i) ==
    s[i] \notin Whitespace \/ i = 1 \/ s[i - 1] \notin Whitespace

\* re.sub(r'\s+', ' ', s): every maximal run of whitespace becomes one space
CollapseWs(s) ==
    LET keep == Ascending({i \in DOMAIN s : StartsRunOrText(s, i)}, 1, Len(s))
    IN [k \in DOMAIN keep |->
           IF s[keep[k]] \in Whitespace THEN " " ELSE s[keep[k]]]

\* re.sub(r'[^\w\s.,!?;:\'"\-]', ' ', s)
BlankSpecial(s) ==
    [i \in DOMAIN s |->
        IF s[i] \in WordChars \cup Whitespace \cup KeptPunct THEN s[i] ELSE " "]

\* str.strip()
Strip(s) ==
    LET solid == {i \in DOMAIN s : s[i] \notin Whitespace}
    IN IF solid = {} THEN << >>
       ELSE SubSeq(s, CHOOSE i \in solid : \A j \in solid : i <= j,
                      CHOOSE i \in solid : \A j \in solid : i >= j)

\* a normaliser that blanks the special characters last
clean_text_SpecialLast(txt) == BlankSpecial(Strip(CollapseWs(txt)))

\* lines 109-117
clean_text(txt) == Strip(CollapseWs(BlankSpecial(CollapseWs(txt))))

\* ------------------------------------------------------------------------
\* nltk.tokenize (library): sent_tokenize and word_tokenize
\* ------------------------------------------------------------------------
\* punkt's sentence-ending characters
SentEndChars == {".", "?", "!"}

\* a sentence ends at i: a sentence-ending character followed by whitespace,
\* or the last character of the text
IsSentEnd(s, i) ==
    \/ s[i] \in SentEndChars /\ i < Len(s) /\ s[i + 1] \in Whitespace
    \/ i = Len(s) /\ s[i] \notin Whitespace

\* sent_tokenize: the text cut behind every sentence end; the whitespace
\* between two sentences belongs to neither
sent_tokenize(txt) ==
    LET ends == Ascending({i \in DOMAIN txt : IsSentEnd(txt, i)}, 1, Len(txt))
    IN [k \in DOMAIN ends |->
           SubSeq(txt,
                  SkipWs(txt, IF k = 1 THEN 1 ELSE ends[k - 1] + 1),
                  ends[k])]

\* The Treebank word tokeniser on one sentence: tokens are separated by
\* whitespace; '?' and '!' are tokens of their own; a comma is a token of its
\* own unless a digit follows it; the period that ends the sentence is a
\* token of its own.  Every other character, the underscore included, stays
\* inside its token.
IsPunctToken(s, i) ==
    \/ s[i] \in {"?", "!"}
    \/ s[i] = "," /\ (i = Len(s) \/ s[i + 1] \notin Digits)
    \/ s[i] = "." /\ SkipWs(s, i + 1) > Len(s) /\ i > 1 /\ s[i - 1] # "."

InToken(s, i) == s[i] \notin Whitespace /\ ~IsPunctToken(s, i)

IsTokenStart(s, i) ==
    \/ IsPunctToken(s, i)
    \/ InToken(s, i) /\ (i = 1 \/ ~InToken(s, i - 1))

\* the last position of the token that starts at i
TokenEnd(s, i) ==
    IF IsPunctToken(s, i) THEN i
    ELSE LET stops == {j \in (i + 1)..Len(s) : ~InToken(s, j)}
         IN IF stops = {} THEN Len(s)
            ELSE (CHOOSE j \in stops : \A k \in stops : j <= k) - 1

Treebank(s) ==
    LET starts == Ascending({i \in DOMAIN s : IsTokenStart(s, i)}, 1, Len(s))
    IN [k \in DOMAIN starts |-> SubSeq(s, starts[k], TokenEnd(s, starts[k]))]

RECURSIVE Flatten(_)
Flatten(ss) == IF ss = << >> THEN << >> ELSE Head(ss) \o Flatten(Tail(ss))

\* word_tokenize(text) = [token for sent in sent_tokenize(text)
\*                              for token in treebank.tokenize(sent)]
word_tokenize(txt) ==
    LET sents == sent_tokenize(txt)
    IN Flatten([k \in DOMAIN sents |-> Treebank(sents[k])])

\* ------------------------------------------------------------------------
\* Bounds of the model
\* ------------------------------------------------------------------------
\* the largest count a caller-built config requests for one question type
MaxCount == 2

\* the random generator starts a call in one of the states 0..MaxSeed
MaxSeed == 3

\* the largest top_k of a direct extract_keywords call
MaxTopK == 6

\* the most requests a run serves, and the most lectures it stores
MaxRequests == 3

\* ------------------------------------------------------------------------
\* The corpus: texts as clean_text returns them
\* ------------------------------------------------------------------------
\* "Fill the _____ in this line with some word now."
SentFill ==
    << "F","i","l","l"," ","t","h","e"," ","_","_","_","_","_"," ","i","n",
       " ","t","h","i","s"," ","l","i","n","e"," ","w","i","t","h"," ","s",
       "o","m","e"," ","w","o","r","d"," ","n","o","w","." >>

\* "They said that another other word is another word here."
SentSaid ==
    << "T","h","e","y"," ","s","a","i","d"," ","t","h","a","t"," ","a","n",
       "o","t","h","e","r"," ","o","t","h","e","r"," ","w","o","r","d"," ",
       "i","s"," ","a","n","o","t","h","e","r"," ","w","o","r","d"," ","h",
       "e","r","e","." >>

\* "Word list."
SentList ==
    << "W","o","r","d"," ","l","i","s","t","." >>

\* "Unit 4, b2b and snake_case fit in a long LIST too."
SentUnit ==
    << "U","n","i","t"," ","4",","," ","b","2","b"," ","a","n","d"," ","s",
       "n","a","k","e","_","c","a","s","e"," ","f","i","t"," ","i","n"," ",
       "a"," ","l","o","n","g"," ","L","I","S","T"," ","t","o","o","." >>

\* "The quick brown fox jumps over the lazy dog and the quiet cat sleeps"
\*   on the warm stone wall by the old barn door every single morning."
SentLong ==
    << "T","h","e"," ","q","u","i","c","k"," ","b","r","o","w","n"," ","f",
       "o","x"," ","j","u","m","p","s"," ","o","v","e","r"," ","t","h","e",
       " ","l","a","z","y"," ","d","o","g"," ","a","n","d"," ","t","h","e",
       " ","q","u","i","e","t"," ","c","a","t"," ","s","l","e","e","p","s",
       " ","o","n"," ","t","h","e"," ","w","a","r","m"," ","s","t","o","n",
       "e"," ","w","a","l","l"," ","b","y"," ","t","h","e"," ","o","l","d",
       " ","b","a","r","n"," ","d","o","o","r"," ","e","v","e","r","y"," ",
       "s","i","n","g","l","e"," ","m","o","r","n","i","n","g","." >>

\* "We do go to an end by it so he is up."
SentTiny ==
    << "W","e"," ","d","o"," ","g","o"," ","t","o"," ","a","n"," ","e","n",
       "d"," ","b","y"," ","i","t"," ","s","o"," ","h","e"," ","i","s"," ",
       "u","p","." >>

Sp == << " " >>

Texts ==
    { << >>,
      SentList,
      SentFill,
      SentSaid,
      SentFill \o Sp \o SentSaid,
      SentSaid \o Sp \o SentSaid,
      SentUnit \o Sp \o SentList,
      SentFill \o Sp \o SentSaid \o Sp \o SentUnit,
      SentLong \o Sp \o SentList,
      SentTiny \o Sp \o SentSaid }

RECURSIVE Join(_)
\* " ".join(texts)
Join(texts) ==
    IF texts = << >> THEN << >>
    ELSE IF Len(texts) = 1 THEN texts[1]
    ELSE texts[1] \o Sp \o Join(Tail(texts))

\* the texts extracted from uploaded files, and their joins by
\* auto_generate_assignment
StoredTexts == {SentList, SentSaid}

JoinedTexts ==
    {Join(ts) : ts \in UNION {[1..n -> StoredTexts] : n \in 1..MaxRequests}}

TabulatedTexts == Texts \cup JoinedTexts

\* The tokenisers are functions of their argument alone, so their values on
\* the corpus are tabulated once: Sentences and Words are sent_tokenize and
\* word_tokenize, read from the table where it has the argument.
SentenceTable == [t \in TabulatedTexts |-> sent_tokenize(t)]

Sentences(t) ==
    IF t \in DOMAIN SentenceTable THEN SentenceTable[t] ELSE sent_tokenize(t)

WordTable ==
    [s \in {Lower(t) : t \in TabulatedTexts}
             \cup UNION {Range(SentenceTable[t]) : t \in TabulatedTexts} |->
        word_tokenize(s)]

Words(s) == IF s \in DOMAIN WordTable THEN WordTable[s] ELSE word_tokenize(s)

\* ------------------------------------------------------------------------
\* question_generator.extract_keywords
\* ------------------------------------------------------------------------
\* nltk.corpus.stopwords.words('english'), the part of the list that the
\* corpus can meet
StopWords ==
    { << "i" >>,
      << "m","e" >>,
      << "m","y" >>,
      << "w","e" >>,
      << "o","u","r" >>,
      << "y","o","u" >>,
      << "h","e" >>,
      << "s","h","e" >>,
      << "i","t" >>,
      << "t","h","e","y" >>,
      << "t","h","e","m" >>,
      << "t","h","e","i","r" >>,
      << "t","h","i","s" >>,
      << "t","h","a","t" >>,
      << "t","h","e","s","e" >>,
      << "t","h","o","s","e" >>,
      << "a","m" >>,
      << "i","s" >>,
      << "a","r","e" >>,
      << "w","a","s" >>,
      << "w","e","r","e" >>,
      << "b","e" >>,
      << "b","e","e","n" >>,
      << "a" >>,
      << "a","n" >>,
      << "t","h","e" >>,
      << "a","n","d" >>,
      << "b","u","t" >>,
      << "i","f" >>,
      << "o","r" >>,
      << "o","f" >>,
      << "a","t" >>,
      << "b","y" >>,
      << "f","o","r" >>,
      << "w","i","t","h" >>,
      << "t","o" >>,
      << "f","r","o","m" >>,
      << "i","n" >>,
      << "o","n" >>,
      << "o","v","e","r" >>,
      << "h","e","r","e" >>,
      << "t","h","e","r","e" >>,
      << "o","t","h","e","r" >>,
      << "s","o","m","e" >>,
      << "s","u","c","h" >>,
      << "n","o" >>,
      << "n","o","t" >>,
      << "o","n","l","y" >>,
      << "t","o","o" >>,
      << "v","e","r","y" >>,
      << "n","o","w" >> }

\* a filter that forgets the stopword list
IsKeyword_NoStopwords(w) == IsAlpha(w) /\ Len(w) > 3

\* the filter of line 30
IsKeyword(w) == IsAlpha(w) /\ w \notin StopWords /\ Len(w) > 3

\* number of occurrences of w in the list ws
Count(ws, w) == Cardinality({i \in DOMAIN ws : ws[i] = w})

\* a tally that keeps every occurrence as a key of its own
CounterKeys_EveryOccurrence(ws, seen) == ws

RECURSIVE CounterKeys(_, _)
\* the keys of Counter(ws), in insertion order: each word once, at the place
\* of its first occurrence
CounterKeys(ws, seen) ==
    IF ws = << >> THEN << >>
    ELSE IF Head(ws) \in seen THEN CounterKeys(Tail(ws), seen)
         ELSE << Head(ws) >> \o CounterKeys(Tail(ws), seen \cup {Head(ws)})

\* a sort that puts a key in front of the keys of equal count
InsertPos_BeforeEqual(sorted, ws, c) ==
    Cardinality({i \in DOMAIN sorted : Count(ws, sorted[i]) > c})

\* where a key with count c goes in a list sorted by descending count: behind
\* every key whose count is at least c (sorted(..., reverse=True) is stable)
InsertPos(sorted, ws, c) ==
    Cardinality({i \in DOMAIN sorted : Count(ws, sorted[i]) >= c})

RECURSIVE SortByCount(_, _, _)
SortByCount(keys, ws, sorted) ==
    IF keys = << >> THEN sorted
    ELSE LET k   == Head(keys)
             pos == InsertPos(sorted, ws, Count(ws, k))
         IN SortByCount(Tail(keys), ws,
                        SubSeq(sorted, 1, pos) \o << k >>
                            \o SubSeq(sorted, pos + 1, Len(sorted)))

\* Counter(ws).most_common(n)
MostCommon(ws, n) == Take(SortByCount(CounterKeys(ws, {}), ws, << >>), n)

extract_keywords(txt, top_k) ==
    MostCommon(SelectSeq(Words(Lower(txt)), IsKeyword), top_k)

\* ------------------------------------------------------------------------
\* random (library): the module-level generator shared by every caller
\* ------------------------------------------------------------------------
\* The generator is a deterministic function of its state: one draw below n
\* yields a value of 0..n-1 and moves the generator to its next state.
\* a generator that also reads a state the caller cannot set: a draw depends
\* on how many calls have ended before it
RandBelow_HiddenState(r, n) ==
    (r + Cardinality({p \in DOMAIN pc : pc[p] \in {"returned", "raised"}})) % n

RandBelow(r, n) == r % n

NextRandom(r) == (r * 7 + 3) % 31

RECURSIVE SampleLoop(_, _, _, _)
\* random.sample, pool branch:
\*   for i in range(k): j = randbelow(n - i); result[i] = pool[j]
\*                      pool[j] = pool[n - i - 1]
SampleLoop(pool, k, picked, r) ==
    IF k = 0 THEN [out |-> picked, gen |-> r]
    ELSE LET n == Len(pool)
             j == RandBelow(r, n) + 1
         IN SampleLoop(SubSeq([pool EXCEPT ![j] = pool[n]], 1, n - 1),
                       k - 1, Append(picked, pool[j]), NextRandom(r))

\* random.sample(population, k) with 0 <= k <= len(population)
Sample(population, k, r) == SampleLoop(population, k, << >>, r)

\* random.choice(seq) on a non-empty seq
Choice(seq, r) ==
    [out |-> seq[RandBelow(r, Len(seq)) + 1], gen |-> NextRandom(r)]

RECURSIVE ShuffleLoop(_, _, _)
\* random.shuffle: for i in reversed(range(1, len(x))):
\*                     j = randbelow(i + 1); x[i], x[j] = x[j], x[i]
\* (i is the 1-based position here)
ShuffleLoop(x, i, r) ==
    IF i < 2 THEN [out |-> x, gen |-> r]
    ELSE LET j == RandBelow(r, i) + 1
         IN ShuffleLoop([x EXCEPT ![i] = x[j], ![j] = x[i]], i - 1,
                        NextRandom(r))

Shuffle(x, r) == ShuffleLoop(x, Len(x), r)

\* ------------------------------------------------------------------------
\* question_generator: the four synthesizers
\* ------------------------------------------------------------------------
\* "_____"
BlankMarker ==
    << "_","_","_","_","_" >>

\* "distractor_"
DistractorPrefix ==
    << "d","i","s","t","r","a","c","t","o","r","_" >>

\* "..."
Ellipsis ==
    << ".",".","." >>

\* f'What is the meaning of "{keyword}"?'
VocabularyPrompt(keyword) ==
    << "What is the meaning of ", "\"" >> \o keyword \o << "\"", "?" >>

VocabularyQuestion(keyword) ==
    [type |-> "vocabulary", prompt |-> VocabularyPrompt(keyword),
     keyword |-> keyword, difficulty |-> "medium"]

\* a synthesizer that forgets the slice [:num_questions] of line 43
generate_vocabulary_questions_NoSlice(t, num_questions) ==
    LET kws == extract_keywords(t, num_questions * 2)
    IN [i \in DOMAIN kws |-> VocabularyQuestion(kws[i])]

generate_vocabulary_questions(t, num_questions) ==
    LET kws == extract_keywords(t, num_questions * 2)
        first    == Take(kws, num_questions)
    IN [i \in DOMAIN first |-> VocabularyQuestion(first[i])]

\* a filter that lets every sentence pass
LongEnough_NoFilter(s) == TRUE

\* line 59: the sentences with more than 8 tokens
LongEnough(s) == Len(Words(s)) > 8

CandidateSentences(t) == SelectSeq(Sentences(t), LongEnough)

\* a sample size that is not clamped to the number of sentences
SampleSize_Unclamped(num_questions, sentences) == num_questions

\* line 62: min(num_questions, len(sentences))
SampleSize(num_questions, sentences) == Min(num_questions, Len(sentences))

\* line 67
IsContentWord(w) == IsAlpha(w) /\ Len(w) > 3

ContentWords(sentence) == SelectSeq(Words(sentence), IsContentWord)

\* lines 72-79
FillBlankQuestion(sentence, blank_word) ==
    [type |-> "fill_blank",
     prompt |-> ReplaceFirst(sentence, blank_word, BlankMarker),
     answer |-> blank_word,
     original_sentence |-> sentence]

DigitChar(n) == << "0","1","2","3","4","5","6","7","8","9" >>[n + 1]

\* f"distractor_{n}"
Placeholder(n) == Append(DistractorPrefix, DigitChar(n))

IsDistractorFor(keyword, w) == w # keyword /\ Len(w) > 3

\* a scan that keeps the last 3 keywords that differ from the correct one
WrongAnswers_LastThree(kws, keyword) ==
    LET others == {i \in DOMAIN kws : IsDistractorFor(keyword, kws[i])}
        order  == Ascending(others, 1, Len(kws))
        last   == Drop(order, Len(order) - Min(3, Len(order)))
    IN [k \in DOMAIN last |-> kws[last[k]]]

\* lines 90-95: the first 3 keywords that differ from the correct one
WrongAnswers(kws, keyword) ==
    LET others == {i \in DOMAIN kws : IsDistractorFor(keyword, kws[i])}
        order  == Ascending(others, 1, Len(kws))
        first  == Take(order, 3)
    IN [k \in DOMAIN first |-> kws[first[k]]]

\* a padding that gives every placeholder the same name
PadWrongAnswers_SameName(wrong_answers) ==
    wrong_answers \o [i \in 1..(3 - Len(wrong_answers)) |-> Placeholder(0)]

RECURSIVE PadWrongAnswers(_)
\* lines 98-99
PadWrongAnswers(wrong_answers) ==
    IF Len(wrong_answers) >= 3 THEN wrong_answers
    ELSE PadWrongAnswers(Append(wrong_answers, Placeholder(Len(wrong_answers))))

\* options whose distractors are looked for from a place in the keyword list
\* that the random generator decides
Options_FromRandomPlace(kws, keyword) ==
    LET n == IF kws = << >> THEN 0 ELSE rng % Len(kws)
    IN << keyword >>
           \o Take(PadWrongAnswers(
                       WrongAnswers(Drop(kws, n) \o Take(kws, n), keyword)), 3)

\* line 102
Options(kws, keyword) ==
    << keyword >> \o Take(PadWrongAnswers(WrongAnswers(kws, keyword)), 3)

MultipleChoiceQuestion(options, keyword) ==
    [type |-> "multiple_choice",
     prompt |-> << "Which word best fits the context?" >>,
     options |-> options, correct |-> keyword, difficulty |-> "medium"]

\* a question that appends the dots only when the sentence was cut
ReadingQuestion_DotsOnlyWhenCut(sentence) ==
    [type |-> "reading_comprehension",
     prompt |-> << "According to the text, what is the main idea?" >>,
     reference_sentence |->
         IF Len(sentence) > 100 THEN Take(sentence, 100) \o Ellipsis
         ELSE sentence,
     difficulty |-> "medium"]

\* lines 125-130
ReadingQuestion(sentence) ==
    [type |-> "reading_comprehension",
     prompt |-> << "According to the text, what is the main idea?" >>,
     reference_sentence |-> Take(sentence, 100) \o Ellipsis,
     difficulty |-> "medium"]

\* a synthesizer that asks about every sentence, whatever the count
generate_reading_comprehension_AllSentences(t, num_questions) ==
    LET sentences == Sentences(t)
    IN [i \in DOMAIN sentences |-> ReadingQuestion(sentences[i])]

generate_reading_comprehension(t, num_questions) ==
    LET sentences == Sentences(t)
    IN [i \in 1..Min(num_questions, Len(sentences)) |->
           ReadingQuestion(sentences[i])]

RECURSIVE FillBlankLoop(_, _, _)
\* lines 64-79, from generator state r
FillBlankLoop(sel, r, acc) ==
    IF sel = << >> THEN [out |-> acc, gen |-> r]
    ELSE LET content_words == ContentWords(Head(sel))
             drawn == Choice(content_words, r)
         IN IF content_words = << >> THEN FillBlankLoop(Tail(sel), r, acc)
            ELSE FillBlankLoop(Tail(sel), drawn.gen,
                     Append(acc, FillBlankQuestion(Head(sel), drawn.out)))

\* lines 54-81, from generator state r
generate_fill_blank_questions(t, num_questions, r) ==
    LET sentences == CandidateSentences(t)
        drawn == Sample(sentences, SampleSize(num_questions, sentences), r)
    IN FillBlankLoop(drawn.out, drawn.gen, << >>)

RECURSIVE MultipleChoiceLoop(_, _, _, _)
\* lines 88-111, from generator state r
MultipleChoiceLoop(correct, kws, r, acc) ==
    IF correct = << >> THEN [out |-> acc, gen |-> r]
    ELSE LET shuffled == Shuffle(Options(kws, Head(correct)), r)
         IN MultipleChoiceLoop(Tail(correct), kws, shuffled.gen,
                Append(acc, MultipleChoiceQuestion(shuffled.out, Head(correct))))

\* lines 83-113, from generator state r
generate_multiple_choice_questions(t, num_questions, r) ==
    LET kws == extract_keywords(t, num_questions * 3)
    IN MultipleChoiceLoop(Take(kws, num_questions), kws, r, << >>)

\* ------------------------------------------------------------------------
\* generate_all_questions as a process
\* ------------------------------------------------------------------------
\* Two calls are followed: call 1 on any input, and call 2, which repeats
\* call 1's text from the generator state call 1 started in.
Procs == {1, 2}

Keys == {"vocabulary", "fill_blank", "multiple_choice", "reading_comprehension"}

EmptyDict == [k \in {} |-> 0]

\* the config argument: None, or a dict
NoConfig == [given |-> FALSE, dict |-> EmptyDict]

Given(d) == [given |-> TRUE, dict |-> d]

\* a default with another vocabulary count
DefaultConfig_ThreeVocabulary ==
    [vocabulary |-> 3, fill_blank |-> 5, multiple_choice |-> 5,
     reading_comprehension |-> 3]

\* lines 139-144
DefaultConfig ==
    [vocabulary |-> 5, fill_blank |-> 5, multiple_choice |-> 5,
     reading_comprehension |-> 3]

\* the configs a caller passes: none, the four counts spelled out, every
\* mapping of the four keys to 0..MaxCount, mappings that lack one key or all
\* keys, and a mapping with a fifth, unrecognised key
SpelledOutConfig ==
    [k \in Keys |-> IF k = "reading_comprehension" THEN 3 ELSE 5]

PartialConfigs == {[k \in Keys \ {m} |-> 1] : m \in Keys} \cup {EmptyDict}

ExtraKeyConfig == [k \in Keys \cup {"listening"} |-> 1]

Dicts ==
    {SpelledOutConfig, ExtraKeyConfig} \cup [Keys -> 0..MaxCount]
        \cup PartialConfigs

Configs == {NoConfig} \cup {Given(d) : d \in Dicts}

NoResult ==
    [vocabulary |-> << >>, fill_blank |-> << >>, multiple_choice |-> << >>,
     reading_comprehension |-> << >>]

NoKeywordsCall == [text |-> << >>, top_k |-> 0, out |-> << >>, called |-> FALSE]

Final == {"returned", "raised"}

\* lines 146-151 once the fill-blank list fb and the multiple-choice list mc
\* are made
ResultOf(t, cfg, fb, mc) ==
    IF "reading_comprehension" \notin DOMAIN cfg
    THEN [raised |-> TRUE, out |-> NoResult, gen |-> mc.gen]
    ELSE [raised |-> FALSE,
          out |-> [vocabulary |->
                       generate_vocabulary_questions(t, cfg.vocabulary),
                   fill_blank |-> fb.out,
                   multiple_choice |-> mc.out,
                   reading_comprehension |->
                       generate_reading_comprehension(
                           t, cfg.reading_comprehension)],
          gen |-> mc.gen]

\* line 149 once the fill-blank list fb is made
AfterFillBlank(t, cfg, fb) ==
    IF "multiple_choice" \notin DOMAIN cfg
    THEN [raised |-> TRUE, out |-> NoResult, gen |-> fb.gen]
    ELSE ResultOf(t, cfg, fb,
             generate_multiple_choice_questions(t, cfg.multiple_choice, fb.gen))

\* lines 146-148 with the local config cfg
WithConfig(t, cfg, r) ==
    IF "vocabulary" \notin DOMAIN cfg \/ "fill_blank" \notin DOMAIN cfg
    THEN [raised |-> TRUE, out |-> NoResult, gen |-> r]
    ELSE AfterFillBlank(t, cfg,
             generate_fill_blank_questions(t, cfg.fill_blank, r))

\* lines 133-151 as one step from generator state r: the result, whether a
\* config[...] lookup raised KeyError, and the generator state left behind
generate_all_questions(t, c, r) ==
    WithConfig(t, IF c.given THEN c.dict ELSE DefaultConfig, r)

NoSynthesis == [called |-> FALSE, text |-> << >>, out |-> NoResult]

NoResponse == [served |-> 0, endpoint |-> "", status |-> 0, count |-> 0]

NoCleanCall == [input |-> << >>, out |-> << >>, called |-> FALSE]

\* the return of an extractor that is not the PDF one, or of none
Outcome(name, err, txt) ==
    [out |-> txt, error |-> err, invoked |-> name,
     plumber_raised |-> FALSE, plumber_text |-> << >>, pypdf_tried |-> FALSE,
     pypdf_raised |-> FALSE]

NoParseCall ==
    [called |-> FALSE, file_type |-> "", file |-> << >>,
     ret |-> Outcome("none", "none", << >>)]

\* a return value that may be None
None == [none |-> TRUE, value |-> << >>]

Some(v) == [none |-> FALSE, value |-> v]

NoFiles == [path \in {} |-> << >>]

NoSpeechCall ==
    [called |-> FALSE, text |-> << >>, lang |-> "", slow |-> FALSE,
     existed |-> FALSE, invoked |-> FALSE, raised |-> FALSE, ret |-> None]

NoSockets == [username \in {} |-> {}]

NoPush ==
    [pc |-> "idle", username |-> "", message |-> "", snapshot |-> {},
     pending |-> {}, attempted |-> {}, failed |-> {}]

NoSocketCall ==
    [method |-> "", username |-> "", ws |-> "", raised |-> FALSE]


Init ==
    /\ rng = 0
    /\ pc = [p \in Procs |-> "idle"]
    /\ text = [p \in Procs |-> << >>]
    /\ arg = [p \in Procs |-> NoConfig]
    /\ config = [p \in Procs |-> EmptyDict]
    /\ start = [p \in Procs |-> 0]
    /\ selected = [p \in Procs |-> << >>]
    /\ keywords = [p \in Procs |-> << >>]
    /\ todo = [p \in Procs |-> << >>]
    /\ result = [p \in Procs |-> NoResult]
    /\ kw = NoKeywordsCall
    /\ cleaned = NoCleanCall
    /\ parsed = NoParseCall
    /\ lectures = << >>
    /\ quiz = << >>
    /\ synthesized = NoSynthesis
    /\ response = NoResponse
    /\ audio = NoFiles
    /\ spoken = NoSpeechCall
    /\ handed = {}
    /\ active = NoSockets
    /\ pushing = NoPush
    /\ wsop = NoSocketCall

\* a direct call extract_keywords(t, k), in a run that calls nothing else
KeywordsCall ==
    /\ \A p \in Procs : pc[p] = "idle"
    /\ \E t \in Texts, k \in 0..MaxTopK :
          kw' = [text |-> t, top_k |-> k, out |-> extract_keywords(t, k),
                 called |-> TRUE]
    /\ UNCHANGED << rng, pc, text, arg, config, start, selected, keywords,
                    todo, result >>
    /\ UNCHANGED outside

\* lines 138-144: generate_all_questions(t, c) is entered with the generator
\* in state s
Call(p, t, c, s) ==
    /\ pc[p] = "idle"
    /\ rng' = s
    /\ pc' = [pc EXCEPT ![p] = "vocabulary"]
    /\ text' = [text EXCEPT ![p] = t]
    /\ arg' = [arg EXCEPT ![p] = c]
    /\ config' = [config EXCEPT ![p] = IF c.given THEN c.dict ELSE DefaultConfig]
    /\ start' = [start EXCEPT ![p] = s]
    /\ UNCHANGED << selected, keywords, todo, result, kw >>
    /\ UNCHANGED outside

FirstCall ==
    /\ \A p \in Procs : pc[p] = "idle"
    /\ ~kw.called
    /\ \E t \in Texts, c \in Configs, s \in 0..MaxSeed : Call(1, t, c, s)

\* the same text again, from the same generator state, with the same config
\* or, after config=None, with the four default counts spelled out
SecondCall ==
    /\ pc[1] \in Final
    /\ \E c \in {arg[1]} \cup (IF arg[1].given THEN {} ELSE {Given(SpelledOutConfig)}) :
          Call(2, text[1], c, start[1])

\* config[key] raises KeyError when the key is missing
Raise(p) ==
    /\ pc' = [pc EXCEPT ![p] = "raised"]
    /\ UNCHANGED << rng, text, arg, config, start, selected, keywords, todo,
                    result, kw >>

\* line 147
Vocabulary(p) ==
    /\ pc[p] = "vocabulary"
    /\ IF "vocabulary" \notin DOMAIN config[p] THEN Raise(p)
       ELSE /\ result' = [result EXCEPT ![p].vocabulary =
                   generate_vocabulary_questions(text[p], config[p].vocabulary)]
            /\ pc' = [pc EXCEPT ![p] = "fill_blank"]
            /\ UNCHANGED << rng, text, arg, config, start, selected, keywords,
                            todo, kw >>
    /\ UNCHANGED outside

\* line 148, generate_fill_blank_questions lines 56-62
FillBlankSelect(p) ==
    /\ pc[p] = "fill_blank"
    /\ IF "fill_blank" \notin DOMAIN config[p] THEN Raise(p)
       ELSE LET sentences == CandidateSentences(text[p])
                k == SampleSize(config[p].fill_blank, sentences)
                drawn == Sample(sentences, k, rng)
            IN \* random.sample raises ValueError when k > len(population)
               IF k > Len(sentences) THEN Raise(p) ELSE
               /\ selected' = [selected EXCEPT ![p] = drawn.out]
               /\ rng' = drawn.gen
               /\ pc' = [pc EXCEPT ![p] = IF drawn.out = << >>
                                          THEN "multiple_choice"
                                          ELSE "fill_blank_loop"]
               /\ UNCHANGED << text, arg, config, start, keywords, todo,
                               result, kw >>
    /\ UNCHANGED outside

\* generate_fill_blank_questions lines 64-79: one round of the loop
FillBlankNext(p) ==
    /\ pc[p] = "fill_blank_loop"
    /\ LET sentence == Head(selected[p])
           content_words == ContentWords(sentence)
           drawn == Choice(content_words, rng)
       IN /\ IF content_words # << >>
             THEN /\ rng' = drawn.gen
                  /\ result' = [result EXCEPT ![p].fill_blank =
                         Append(@, FillBlankQuestion(sentence, drawn.out))]
             ELSE UNCHANGED << rng, result >>
          /\ selected' = [selected EXCEPT ![p] = Tail(@)]
          /\ pc' = [pc EXCEPT ![p] = IF Tail(selected[p]) = << >>
                                     THEN "multiple_choice"
                                     ELSE "fill_blank_loop"]
    /\ UNCHANGED << text, arg, config, start, keywords, todo, kw >>
    /\ UNCHANGED outside

\* line 149, generate_multiple_choice_questions lines 85-88
MultipleChoiceStart(p) ==
    /\ pc[p] = "multiple_choice"
    /\ IF "multiple_choice" \notin DOMAIN config[p] THEN Raise(p)
       ELSE LET n == config[p].multiple_choice
                found == extract_keywords(text[p], n * 3)
            IN /\ keywords' = [keywords EXCEPT ![p] = found]
               /\ todo' = [todo EXCEPT ![p] = Take(found, n)]
               /\ pc' = [pc EXCEPT ![p] = IF Take(found, n) = << >>
                                          THEN "reading_comprehension"
                                          ELSE "multiple_choice_loop"]
               /\ UNCHANGED << rng, text, arg, config, start, selected,
                               result, kw >>
    /\ UNCHANGED outside

\* generate_multiple_choice_questions lines 88-111: one round of the loop
MultipleChoiceNext(p) ==
    /\ pc[p] = "multiple_choice_loop"
    /\ LET keyword == Head(todo[p])
           shuffled == Shuffle(Options(keywords[p], keyword), rng)
       IN /\ rng' = shuffled.gen
          /\ result' = [result EXCEPT ![p].multiple_choice =
                 Append(@, MultipleChoiceQuestion(shuffled.out, keyword))]
    /\ todo' = [todo EXCEPT ![p] = Tail(@)]
    /\ pc' = [pc EXCEPT ![p] = IF Tail(todo[p]) = << >>
                               THEN "reading_comprehension"
                               ELSE "multiple_choice_loop"]
    /\ UNCHANGED << text, arg, config, start, selected, keywords, kw >>
    /\ UNCHANGED outside

\* line 150, and the return of line 146
Reading(p) ==
    /\ pc[p] = "reading_comprehension"
    /\ IF "reading_comprehension" \notin DOMAIN config[p] THEN Raise(p)
       ELSE /\ result' = [result EXCEPT ![p].reading_comprehension =
                   generate_reading_comprehension(
                       text[p], config[p].reading_comprehension)]
            /\ pc' = [pc EXCEPT ![p] = "returned"]
            /\ UNCHANGED << rng, text, arg, config, start, selected, keywords,
                            todo, kw >>
    /\ UNCHANGED outside

Step(p) ==
    \/ Vocabulary(p)
    \/ FillBlankSelect(p)
    \/ FillBlankNext(p)
    \/ MultipleChoiceStart(p)
    \/ MultipleChoiceNext(p)
    \/ Reading(p)

Next ==
    \/ KeywordsCall
    \/ FirstCall
    \/ SecondCall
    \/ \E p \in Procs : Step(p)

Spec == Init /\ [][Next]_vars

\* Two requests served by two worker threads: the handlers that call
\* generate_all_questions are plain `def` endpoints, which the framework runs
\* in a thread pool, and the module-level generator of `random` is shared.
\* The second call begins at any moment after the first has begun, on the
\* same text and config, with the generator as it then is.
RequestOne ==
    /\ \A p \in Procs : pc[p] = "idle"
    /\ ~kw.called
    /\ \E t \in Texts, n \in 1..MaxCount, s \in 0..MaxSeed :
          Call(1, t, Given([k \in Keys |-> n]), s)

RequestTwo ==
    /\ pc[1] # "idle"
    /\ Call(2, text[1], arg[1], rng)

NextInterleaved ==
    \/ RequestOne
    \/ RequestTwo
    \/ \E p \in Procs : Step(p)

SpecInterleaved == Init /\ [][NextInterleaved]_vars

\* Two calls on the same text, one after the other: the second with counts
\* of its own for every type and from a generator state of its own.
CallAgain ==
    /\ pc[1] = "returned"
    /\ \E d \in [Keys -> {1, MaxCount}], s \in 0..MaxSeed :
          Call(2, text[1], Given(d), s)

NextCounts ==
    \/ RequestOne
    \/ CallAgain
    \/ \E p \in Procs : Step(p)

SpecCounts == Init /\ [][NextCounts]_vars

\* ------------------------------------------------------------------------
\* file_parser: clean_text and the extractors, called directly
\* ------------------------------------------------------------------------
\* the longest raw string handed to clean_text
MaxRawLen == 3

\* raw strings: letters of both cases, a digit, blanks and line breaks, a
\* special character, the underscore and a kept punctuation mark
RawAlphabet == {"a", "Z", "7", " ", "\n", "#", "_", "-"}

RawTexts == UNION {[1..n -> RawAlphabet] : n \in 0..MaxRawLen}

\* the most pages a PDF file has
MaxPages == 2

\* What a library call on one page (or on the whole office document) does:
\* it returns text, it returns None (a page without a text layer), or it
\* raises.
Returns(t) == [kind |-> "text", text |-> t]

ReturnsNone == [kind |-> "none", text |-> << >>]

Raises == [kind |-> "raises", text |-> << >>]

\* page texts: a short and a longer sentence, blanks only, special
\* characters only
PageTexts == {SentList, SentSaid, << " ", " " >>, << "#", "#" >>}

PageOutcomes == {Returns(t) : t \in PageTexts} \cup {ReturnsNone, Raises}

\* what a strategy meets page by page; a file that cannot be opened raises
\* before the first page
PageRuns == UNION {[1..n -> PageOutcomes] : n \in 0..MaxPages}

\* A file is what each library makes of its bytes.
PdfFiles ==
    [plumber : PageRuns, pypdf : PageRuns, docx : {Raises}, pptx : {Raises}]

OfficeFiles ==
    [plumber : {<< Raises >>}, pypdf : {<< Raises >>},
     docx : {Raises, Returns(SentList)}, pptx : {Raises, Returns(SentList)}]

Files == PdfFiles \cup OfficeFiles

Newline == << "\n" >>

RECURSIVE ReadPages(_, _)
\* lines 24-25 and 34-35: for page in pages: text += page.extract_text() + "\n"
\* until a page raises (None + "\n" raises TypeError)
ReadPages(pages, acc) ==
    IF pages = << >> THEN [text |-> acc, raised |-> FALSE]
    ELSE IF Head(pages).kind # "text" THEN [text |-> acc, raised |-> TRUE]
    ELSE ReadPages(Tail(pages), acc \o Head(pages).text \o Newline)

\* line 30: if not text.strip()
NeedsFallback(first) == Strip(first.text) = << >>

\* lines 17-39; the fields beside `out` record which strategy ran and raised
extract_text_from_pdf(f) ==
    LET first  == ReadPages(f.plumber, << >>)
        second == IF NeedsFallback(first) THEN ReadPages(f.pypdf, first.text)
                  ELSE [text |-> first.text, raised |-> FALSE]
    IN [out |-> clean_text(second.text),
        error |-> "none",
        invoked |-> "pdf",
        plumber_raised |-> first.raised,
        plumber_text |-> first.text,
        pypdf_tried |-> NeedsFallback(first),
        pypdf_raised |-> second.raised]

\* lines 41-51
extract_text_from_docx(f) ==
    Outcome("docx", "none",
            IF f.docx.kind = "text" THEN clean_text(f.docx.text \o Newline)
            ELSE << >>)

\* lines 53-65
extract_text_from_pptx(f) ==
    Outcome("pptx", "none",
            IF f.pptx.kind = "text" THEN clean_text(f.pptx.text \o Newline)
            ELSE << >>)

\* the format tags a caller passes
Tags == {"pdf", "docx", "doc", "pptx", "ppt", "csv", "excel", "unknown", "txt"}

\* lines 136-145
extract_text_from_file(f, file_type) ==
    IF file_type = "pdf" THEN extract_text_from_pdf(f)
    ELSE IF file_type \in {"docx", "doc"} THEN extract_text_from_docx(f)
    ELSE IF file_type \in {"pptx", "ppt"} THEN extract_text_from_pptx(f)
    ELSE Outcome("none", "ValueError", << >>)

\* a direct call extract_text_from_file(f, file_type), in a run that calls
\* nothing else
ParseCall ==
    /\ ~parsed.called /\ ~cleaned.called
    /\ \E f \in Files, file_type \in Tags :
          parsed' = [called |-> TRUE, file_type |-> file_type, file |-> f,
                     ret |-> extract_text_from_file(f, file_type)]
    /\ UNCHANGED << cleaned, lectures, quiz, synthesized, response >>
    /\ UNCHANGED << speech, sockets >>
    /\ UNCHANGED generator

\* a direct call clean_text(t), in a run that calls nothing else
CleanCall ==
    /\ ~parsed.called /\ ~cleaned.called
    /\ \E t \in RawTexts :
          cleaned' = [input |-> t, out |-> clean_text(t), called |-> TRUE]
    /\ UNCHANGED << parsed, lectures, quiz, synthesized, response >>
    /\ UNCHANGED << speech, sockets >>
    /\ UNCHANGED generator

NextParser == CleanCall \/ ParseCall

\* runs that call clean_text alone
NextClean == CleanCall

SpecClean == Init /\ [][NextClean]_vars

SpecParser == Init /\ [][NextParser]_vars

\* ------------------------------------------------------------------------
\* main.py: the lecture and assignment handlers
\* ------------------------------------------------------------------------
\* file name extensions
EXT_PDF == << ".","p","d","f" >>

EXT_PDFUP == << ".","P","D","F" >>

EXT_DOCX == << ".","d","o","c","x" >>

EXT_DOC == << ".","d","o","c" >>

EXT_PPTX == << ".","p","p","t","x" >>

EXT_PPT == << ".","p","p","t" >>

EXT_XLSX == << ".","x","l","s","x" >>

EXT_XLS == << ".","x","l","s" >>

EXT_CSV == << ".","c","s","v" >>

EXT_TXT == << ".","t","x","t" >>

\* the extensions of uploaded file names
Extensions ==
    { EXT_PDF, EXT_PDFUP, EXT_DOCX, EXT_DOC, EXT_PPTX, EXT_XLSX, EXT_CSV,
      EXT_TXT }

\* lines 119-134; ext is os.path.splitext(filename)[1]
detect_file_type(ext) ==
    LET e == Lower(ext)
    IN IF e = EXT_PDF THEN "pdf"
       ELSE IF e \in {EXT_DOCX, EXT_DOC} THEN "docx"
       ELSE IF e \in {EXT_PPTX, EXT_PPT} THEN "pptx"
       ELSE IF e \in {EXT_XLSX, EXT_XLS} THEN "excel"
       ELSE IF e = EXT_CSV THEN "csv"
       ELSE "unknown"

\* the files teachers upload: one-page PDFs that pdfplumber reads or fails
\* on, and office documents
UploadFiles ==
    {f \in PdfFiles : Len(f.plumber) <= 1 /\ f.pypdf = << >>} \cup OfficeFiles

\* a column value that may be NULL
Null == [null |-> TRUE, text |-> << >>]

Value(t) == [null |-> FALSE, text |-> t]

\* Python truthiness of a nullable string
Truthy(v) == ~v.null /\ v.text # << >>

\* an assignment row exists for these ids
Assignments == {1}

\* the ids a request may name
RequestIds == {1, 2}

\* the threshold of line 592
MinTextLen == 50

\* lines 596-601
UploadConfig ==
    Given([vocabulary |-> 5, fill_blank |-> 5, multiple_choice |-> 10,
           reading_comprehension |-> 3])

\* the response of an endpoint: a status and the number it reports
Respond(endpoint, status, n) ==
    response' = [served |-> response.served + 1, endpoint |-> endpoint,
                 status |-> status, count |-> n]

\* questions = generate_all_questions(t, ...), made being what the call does
Invoke(t, made) ==
    /\ synthesized' = [called |-> TRUE, text |-> t, out |-> made.out]
    /\ rng' = made.gen

\* lines 553-628: upload_lecture_with_questions
UploadLectureWithQuestions ==
    /\ response.served < MaxRequests
    /\ \E ext \in Extensions, f \in UploadFiles, generate_questions \in BOOLEAN :
          LET file_type == detect_file_type(ext)
              extracted_text ==
                  IF generate_questions
                  THEN extract_text_from_file(f, file_type).out ELSE << >>
              enough == extracted_text # << >>
                            /\ Len(extracted_text) >= MinTextLen
          IN IF file_type \notin {"pdf", "docx", "pptx"}
             THEN /\ Respond("upload_lecture_with_questions", 400, 0)
                  /\ UNCHANGED << rng, lectures, synthesized >>
             ELSE /\ IF generate_questions /\ enough
                     THEN Invoke(extracted_text,
                                 generate_all_questions(
                                     extracted_text, UploadConfig, rng))
                     ELSE UNCHANGED << rng, synthesized >>
                  /\ lectures' = Append(lectures,
                         IF extracted_text # << >>
                         THEN Value(Take(extracted_text, 5000)) ELSE Null)
                  \* len() of the returned dict, or of the empty list
                  /\ Respond("upload_lecture_with_questions", 200,
                             IF generate_questions /\ enough THEN 4 ELSE 0)
    /\ UNCHANGED << quiz, cleaned, parsed >>
    /\ UNCHANGED << speech, sockets >>
    /\ UNCHANGED << pc, text, arg, config, start, selected, keywords, todo,
                    result, kw >>

\* the question_config bodies a client sends
RequestConfigs ==
    {NoConfig, Given([k \in Keys |-> 1]),
     Given([k \in Keys \ {"reading_comprehension"} |-> 1])}

\* the number of questions in a result
Total(questions) ==
    Len(questions.vocabulary) + Len(questions.fill_blank)
        + Len(questions.multiple_choice) + Len(questions.reading_comprehension)

\* lines 751-757, made being what the call of line 751 does
ReturnQuestions(t, made) ==
    /\ Invoke(t, made)
    /\ IF made.raised
       THEN Respond("generate_questions_from_lecture", 500, 0)
       ELSE Respond("generate_questions_from_lecture", 200, Total(made.out))

\* lines 734-757: generate_questions_from_lecture
GenerateQuestionsFromLecture ==
    /\ response.served < MaxRequests
    /\ \E lecture_id \in RequestIds, question_config \in RequestConfigs :
          IF lecture_id \notin DOMAIN lectures
          THEN /\ Respond("generate_questions_from_lecture", 404, 0)
               /\ UNCHANGED << rng, synthesized >>
          ELSE IF ~Truthy(lectures[lecture_id])
          THEN /\ Respond("generate_questions_from_lecture", 400, 0)
               /\ UNCHANGED << rng, synthesized >>
          ELSE ReturnQuestions(
                   lectures[lecture_id].text,
                   generate_all_questions(
                       lectures[lecture_id].text, question_config, rng))
    /\ UNCHANGED << lectures, quiz, cleaned, parsed >>
    /\ UNCHANGED << speech, sockets >>
    /\ UNCHANGED << pc, text, arg, config, start, selected, keywords, todo,
                    result, kw >>

\* str.upper() on one character, and on a string
UpperChar(c) ==
    IF \E i \in 1..26 : LowerLetters[i] = c
    THEN UpperLetters[CHOOSE i \in 1..26 : LowerLetters[i] = c]
    ELSE c

Upper(s) == [i \in DOMAIN s |-> UpperChar(s[i])]

\* the question_types parameter, already split at the commas
QuestionTypes ==
    { << "multiple_choice", "fill_blank" >>, << "multiple_choice" >>,
      << "vocabulary" >> }

\* a row that puts the correct keyword first and the other options behind it
QuizRow_CorrectFirst(assignment_id, q) ==
    LET others == SelectSeq(q.options, LAMBDA w : w # q.correct)
    IN [assignment_id |-> assignment_id, prompt |-> q.prompt,
        choice_a |-> q.correct, choice_b |-> others[1],
        choice_c |-> others[2], choice_d |-> others[3],
        correct |-> Upper(q.correct)]

\* lines 844-853
QuizRow(assignment_id, q) ==
    [assignment_id |-> assignment_id, prompt |-> q.prompt,
     choice_a |-> q.options[1], choice_b |-> q.options[2],
     choice_c |-> q.options[3], choice_d |-> q.options[4],
     correct |-> Upper(q.correct)]

\* lines 837-864, made being what the call of line 837 does; a KeyError
\* of the call leaves the handler before anything is added
SaveQuestions(assignment_id, t, made) ==
    /\ Invoke(t, made)
    /\ IF made.raised
       THEN /\ Respond("auto_generate_assignment", 500, 0)
            /\ UNCHANGED quiz
       ELSE /\ quiz' = quiz \o [i \in DOMAIN made.out.multiple_choice |->
                            QuizRow(assignment_id, made.out.multiple_choice[i])]
            /\ Respond("auto_generate_assignment", 200,
                       Len(made.out.multiple_choice))

\* lines 798-864: auto_generate_assignment
AutoGenerateAssignment ==
    /\ response.served < MaxRequests
    /\ \E assignment_id \in RequestIds, num_questions \in {2, 3, 4},
          question_types \in QuestionTypes :
          LET with_text == SelectSeq(lectures, Truthy)
              combined_text == Join([i \in DOMAIN with_text |-> with_text[i].text])
              half == num_questions \div 2
              cfg == Given(
                  [vocabulary |-> 0,
                   fill_blank |->
                       IF "fill_blank" \in Range(question_types) THEN half ELSE 0,
                   multiple_choice |->
                       IF "multiple_choice" \in Range(question_types)
                       THEN half ELSE 0,
                   reading_comprehension |-> 0])
          IN IF assignment_id \notin Assignments
             THEN /\ Respond("auto_generate_assignment", 404, 0)
                  /\ UNCHANGED << rng, synthesized, quiz >>
             ELSE IF lectures = << >> \/ combined_text = << >>
             THEN /\ Respond("auto_generate_assignment", 400, 0)
                  /\ UNCHANGED << rng, synthesized, quiz >>
             ELSE SaveQuestions(
                      assignment_id, combined_text,
                      generate_all_questions(combined_text, cfg, rng))
    /\ UNCHANGED << lectures, cleaned, parsed >>
    /\ UNCHANGED << speech, sockets >>
    /\ UNCHANGED << pc, text, arg, config, start, selected, keywords, todo,
                    result, kw >>

NextLectures ==
    \/ UploadLectureWithQuestions
    \/ GenerateQuestionsFromLecture
    \/ AutoGenerateAssignment

SpecLectures == Init /\ [][NextLectures]_vars

\* ------------------------------------------------------------------------
\* tts.py: text_to_speech
\* ------------------------------------------------------------------------
\* the texts to speak: "", "cat", "dog", "bird"
SpeechTexts ==
    { << >>, << "c","a","t" >>, << "d","o","g" >>, << "b","i","r","d" >> }

Langs == {"en", "vi"}

\* hashlib.md5(text.encode()).hexdigest()[:16]: a function of the text into
\* a space of digests in which two texts can meet; here the digest is the
\* length of the text
Digest(t) == Len(t)

\* lines 31-33: os.path.join(AUDIO_DIR, f"tts_{lang}_{text_hash}.mp3")
PathOf(lang, t) == [lang |-> lang, text_hash |-> Digest(t)]

\* a test that never finds the file
Exists_Never(filepath) == FALSE

\* line 36: os.path.exists(filepath)
Exists(filepath) == filepath \in DOMAIN audio

\* gtts (library): gTTS(text=...) raises on an empty text; save() opens the
\* file and writes the audio it fetches into it: it returns, or it raises
\* before the file is made, or it raises with the file made and incomplete
SaveOutcomes == {"saved", "failed_unopened", "failed_partial"}

\* the record of a call, and the triple of a call that returned a path
SpeechCall(t, lang, slow, existed, invoked, ret) ==
    [called |-> TRUE, text |-> t, lang |-> lang, slow |-> slow,
     existed |-> existed, invoked |-> invoked, raised |-> FALSE, ret |-> ret]

Handed(t, lang, filepath) == [text |-> t, lang |-> lang, path |-> filepath]

\* lines 17-47: text_to_speech(text, lang, slow); every exception of the
\* body is caught at line 45 and None returned
TextToSpeech ==
    /\ \E t \in SpeechTexts, lang \in Langs, slow \in BOOLEAN,
          outcome \in SaveOutcomes :
          LET filepath == PathOf(lang, t)
          IN IF Exists(filepath)
             THEN /\ spoken' = SpeechCall(t, lang, slow, TRUE, FALSE,
                                          Some(filepath))
                  /\ handed' = handed \cup {Handed(t, lang, filepath)}
                  /\ UNCHANGED audio
             ELSE IF t = << >>
             THEN /\ spoken' = SpeechCall(t, lang, slow, FALSE, TRUE, None)
                  /\ UNCHANGED << audio, handed >>
             ELSE IF outcome = "saved"
             THEN /\ spoken' = SpeechCall(t, lang, slow, FALSE, TRUE,
                                          Some(filepath))
                  /\ audio' = (filepath :> [text |-> t, complete |-> TRUE])
                                  @@ audio
                  /\ handed' = handed \cup {Handed(t, lang, filepath)}
             ELSE /\ spoken' = SpeechCall(t, lang, slow, FALSE, TRUE, None)
                  /\ audio' = IF outcome = "failed_partial"
                              THEN (filepath :> [text |-> t, complete |-> FALSE])
                                       @@ audio
                              ELSE audio
                  /\ UNCHANGED handed
    /\ UNCHANGED << generator, documents, sockets >>

NextSpeech == TextToSpeech

SpecSpeech == Init /\ [][NextSpeech]_vars

\* ------------------------------------------------------------------------
\* ws.py: WSManager
\* ------------------------------------------------------------------------
Usernames == {"ann", "bob"}

\* WebSocket objects
Sockets == {"w1", "w2", "w3"}

Messages == {"hello"}

\* self.active.get(username, set())
Registered(username) ==
    IF username \in DOMAIN active THEN active[username] ELSE {}

\* a disconnect that drops every socket of the user
Discard_WholeUser(username, ws) ==
    IF username \in DOMAIN active
    THEN [active EXCEPT ![username] = {}]
    ELSE active

\* lines 13-14: the value of self.active after disconnect(username, ws)
Discard(username, ws) ==
    IF username \in DOMAIN active
    THEN [active EXCEPT ![username] = @ \ {ws}]
    ELSE active

SocketCall(method, username, ws, raised) ==
    [method |-> method, username |-> username, ws |-> ws, raised |-> raised]

\* lines 8-10: connect(username, ws); ws.accept() returns or raises, and
\* what it raises leaves connect
Connect ==
    /\ \E username \in Usernames, ws \in Sockets, accepted \in BOOLEAN :
          /\ active' =
                 IF accepted
                 THEN [u \in DOMAIN active \cup {username} |->
                          IF u = username THEN Registered(u) \cup {ws}
                          ELSE active[u]]
                 ELSE active
          /\ wsop' = SocketCall("connect", username, ws, ~accepted)
    /\ UNCHANGED pushing
    /\ UNCHANGED << generator, documents, speech >>

\* lines 12-14: disconnect(username, ws)
Disconnect ==
    /\ \E username \in Usernames, ws \in Sockets :
          /\ active' = Discard(username, ws)
          /\ wsop' = SocketCall("disconnect", username, ws, FALSE)
    /\ UNCHANGED pushing
    /\ UNCHANGED << generator, documents, speech >>

\* line 17: push(username, message) takes list(self.active.get(...))
PushBegin ==
    /\ pushing.pc \in {"idle", "returned"}
    /\ \E username \in Usernames, message \in Messages :
          /\ pushing' = [pc |-> "sending", username |-> username,
                         message |-> message,
                         snapshot |-> Registered(username),
                         pending |-> Registered(username), attempted |-> {},
                         failed |-> {}]
          /\ wsop' = SocketCall("push", username, "", FALSE)
    /\ UNCHANGED active
    /\ UNCHANGED << generator, documents, speech >>

\* lines 18-21: one round of the loop, on the socket the list yields next;
\* send_text returns or raises, and except Exception calls disconnect
PushSend ==
    /\ pushing.pc = "sending"
    /\ \E ws \in pushing.pending, sent \in BOOLEAN :
          /\ pushing' = [pushing EXCEPT
                             !.pending = @ \ {ws},
                             !.attempted = @ \cup {ws},
                             !.failed = IF sent THEN @ ELSE @ \cup {ws}]
          /\ active' = IF sent THEN active ELSE Discard(pushing.username, ws)
          /\ wsop' = SocketCall("send_text", pushing.username, ws, ~sent)
    /\ UNCHANGED << generator, documents, speech >>

\* the loop of line 17 is exhausted: push returns
PushReturn ==
    /\ pushing.pc = "sending"
    /\ pushing.pending = {}
    /\ pushing' = [pushing EXCEPT !.pc = "returned"]
    /\ wsop' = SocketCall("return", pushing.username, "", FALSE)
    /\ UNCHANGED active
    /\ UNCHANGED << generator, documents, speech >>

NextSockets ==
    \/ Connect
    \/ Disconnect
    \/ PushBegin
    \/ PushSend
    \/ PushReturn

SpecSockets == Init /\ [][NextSockets]_vars

\* ------------------------------------------------------------------------
\* Properties
\* ------------------------------------------------------------------------
\* the questions of one type returned so far by any call
Emitted(kind) == UNION {Range(result[p][kind]) : p \in Procs}

IsPlaceholder(w) == \E n \in 0..2 : w = Placeholder(n)

\* the tokens extract_keywords reads, and the frequency and first occurrence
\* of a term among them
Tokens(t) == Words(Lower(t))

Frequency(t, w) == Cardinality({i \in DOMAIN Tokens(t) : Tokens(t)[i] = w})

FirstOccurrence(t, w) ==
    CHOOSE i \in DOMAIN Tokens(t) :
        Tokens(t)[i] = w /\ \A j \in DOMAIN Tokens(t) : Tokens(t)[j] = w => i <= j

\* the distinct eligible keywords of a text
Eligible(t) ==
    {w \in Range(Tokens(t)) :
        /\ Len(w) >= 4
        /\ \A i \in DOMAIN w : w[i] \in Range(LowerLetters)
        /\ w \notin StopWords}

\* the same, and the full ranking of a text, tabulated over the corpus
EligibleTable == [t \in Texts |-> Eligible(t)]

EligibleKeywords(t) ==
    IF t \in DOMAIN EligibleTable THEN EligibleTable[t] ELSE Eligible(t)

RankingTable == [t \in Texts |-> extract_keywords(t, Len(t))]

Ranking(t) ==
    IF t \in DOMAIN RankingTable THEN RankingTable[t]
    ELSE extract_keywords(t, Len(t))

\* C1: every multiple-choice question has exactly 4 pairwise distinct options
\* and its correct answer is one of them, placeholders included.
C1_FourDistinctOptions ==
    \A q \in Emitted("multiple_choice") :
        /\ Len(q.options) = 4
        /\ Cardinality(Range(q.options)) = 4
        /\ q.correct \in Range(q.options)

\* a question whose options hold two placeholders
C1_Witness ==
    \E q \in Emitted("multiple_choice") :
        Cardinality({w \in Range(q.options) : IsPlaceholder(w)}) = 2

\* C2: in every fill-blank question the blank marker occurs exactly once in
\* the prompt, and putting the answer in its place gives the original sentence.
C2_RoundTrip ==
    \A q \in Emitted("fill_blank") :
        /\ Occurrences(q.prompt, BlankMarker) = 1
        /\ ReplaceFirst(q.prompt, BlankMarker, q.answer) = q.original_sentence

\* C3: extract_keywords returns at most top_k terms and no term twice.
C3_AtMostTopKNoDuplicates ==
    kw.called =>
        /\ Len(kw.out) <= kw.top_k
        /\ Cardinality(Range(kw.out)) = Len(kw.out)

\* a call that cut the ranking of a text in which a keyword repeats
C3_Witness ==
    /\ kw.called
    /\ kw.top_k >= 2
    /\ Len(kw.out) = kw.top_k
    /\ Cardinality(EligibleKeywords(kw.text)) > kw.top_k
    /\ \E w \in Range(kw.out) : Frequency(kw.text, w) > 1

\* C4: the keywords come by descending frequency, and terms of equal
\* frequency in the order of their first occurrence in the text.
C4_RankedByFrequencyThenFirstOccurrence ==
    kw.called =>
        \A i, j \in DOMAIN kw.out :
            i < j =>
                \/ Frequency(kw.text, kw.out[i]) > Frequency(kw.text, kw.out[j])
                \/ /\ Frequency(kw.text, kw.out[i]) = Frequency(kw.text, kw.out[j])
                   /\ FirstOccurrence(kw.text, kw.out[i])
                          < FirstOccurrence(kw.text, kw.out[j])

\* a ranking with a tie, and with a frequent term that first occurs behind a
\* rarer one
C4_Witness ==
    /\ kw.called
    /\ \E i, j \in DOMAIN kw.out :
          /\ i < j
          /\ Frequency(kw.text, kw.out[i]) = Frequency(kw.text, kw.out[j])
    /\ \E i, j \in DOMAIN kw.out :
          /\ i < j
          /\ Frequency(kw.text, kw.out[i]) > Frequency(kw.text, kw.out[j])
          /\ FirstOccurrence(kw.text, kw.out[i])
                 > FirstOccurrence(kw.text, kw.out[j])

\* C5: every keyword is a lowercase alphabetic token of at least 4 letters
\* that is no stopword; so is every vocabulary keyword, every correct answer
\* and every option that is no placeholder.
C5_KeywordsAreEligible ==
    /\ kw.called => Range(kw.out) \subseteq EligibleKeywords(kw.text)
    /\ \A p \in Procs :
          /\ \A q \in Range(result[p].vocabulary) :
                q.keyword \in EligibleKeywords(text[p])
          /\ \A q \in Range(result[p].multiple_choice) :
                /\ q.correct \in EligibleKeywords(text[p])
                /\ \A w \in Range(q.options) :
                      IsPlaceholder(w) \/ w \in EligibleKeywords(text[p])

\* keywords drawn from a text that holds a stopword of 4 letters or more, a
\* short word and a long token that is not alphabetic
C5_Witness ==
    /\ kw.called
    /\ kw.out # << >>
    /\ \E w \in Range(Tokens(kw.text)) : w \in StopWords /\ Len(w) > 3
    /\ \E w \in Range(Tokens(kw.text)) : IsAlpha(w) /\ Len(w) < 4 /\ w \notin StopWords
    /\ \E w \in Range(Tokens(kw.text)) : ~IsAlpha(w) /\ Len(w) > 3

\* C6: the answer of a fill-blank question is never a stopword and never
\* shorter than 4 characters.
C6_AnswerIsNoStopword ==
    \A q \in Emitted("fill_blank") :
        Lower(q.answer) \notin StopWords /\ Len(q.answer) >= 4

\* the vocabulary step of call p is behind it
VocabularyDone(p) ==
    pc[p] \notin {"idle", "vocabulary"} /\ "vocabulary" \in DOMAIN config[p]

\* C7: generate_vocabulary_questions(text, count) returns min(count, number
\* of distinct eligible keywords) questions, the i-th on the i-th ranked
\* keyword, with the fixed prompt and difficulty medium.
C7_VocabularyUnderFill ==
    \A p \in Procs :
        VocabularyDone(p) =>
            LET count  == config[p].vocabulary
                found  == EligibleKeywords(text[p])
                ranked == Ranking(text[p])
                out    == result[p].vocabulary
            IN /\ Len(out) = Min(count, Cardinality(found))
               /\ \A i \in DOMAIN out :
                     /\ out[i].type = "vocabulary"
                     /\ out[i].keyword = ranked[i]
                     /\ out[i].prompt =
                            << "What is the meaning of ", "\"" >>
                                \o ranked[i] \o << "\"", "?" >>
                     /\ out[i].difficulty = "medium"

\* 5 questions asked of a text with 2 eligible keywords: 2 questions
C7_Witness ==
    \E p \in Procs :
        /\ VocabularyDone(p)
        /\ config[p].vocabulary = 5
        /\ Cardinality(EligibleKeywords(text[p])) = 2
        /\ Len(result[p].vocabulary) = 2

C9_MissingKeyMeansZero ==
    \A p \in Procs :
        (pc[p] \in Final /\ arg[p].given) =>
            /\ pc[p] = "returned"
            /\ \A k \in Keys \ DOMAIN arg[p].dict : result[p][k] = << >>

\* C10: a call with config None returns what a call with the config
\* {vocabulary: 5, fill_blank: 5, multiple_choice: 5,
\* reading_comprehension: 3} returns.
C10_NoneIsDefault ==
    (/\ pc[1] = "returned" /\ pc[2] = "returned"
     /\ ~arg[1].given
     /\ arg[2] = Given([vocabulary |-> 5, fill_blank |-> 5,
                        multiple_choice |-> 5, reading_comprehension |-> 3]))
        => result[1] = result[2]

\* such a pair of calls on a text that fills 5 vocabulary questions
C10_Witness ==
    /\ pc[1] = "returned" /\ pc[2] = "returned"
    /\ ~arg[1].given /\ arg[2].given
    /\ Len(result[1].vocabulary) = 5
    /\ Len(result[1].multiple_choice) = 5
    /\ result[1].fill_blank # << >>

\* the config of call p holds the four counts
FourCounts(p) == pc[p] # "idle" /\ Keys \subseteq DOMAIN config[p]

\* C11: the result has exactly the four keys, every list holds only
\* questions of its own type and at most as many as were requested, so the
\* total is at most the sum of the requested counts.
C11_FourTypedListsWithinCounts ==
    \A p \in Procs :
        FourCounts(p) =>
            /\ DOMAIN result[p] = Keys
            /\ \A k \in Keys :
                  /\ \A q \in Range(result[p][k]) : q.type = k
                  /\ Len(result[p][k]) <= config[p][k]

\* a returned call with a question of every type, one list under-filled
\* and one filled to its count
C11_Witness ==
    \E p \in Procs :
        /\ FourCounts(p) /\ pc[p] = "returned"
        /\ \A k \in Keys : result[p][k] # << >>
        /\ \E k \in Keys : Len(result[p][k]) < config[p][k]
        /\ \E k \in Keys : Len(result[p][k]) = config[p][k]

\* C12: a call with four counts never raises, and on a text without a
\* sentence and without an eligible keyword it returns four empty lists.
C12_NeverRaisesEmptyOnEmpty ==
    \A p \in Procs :
        FourCounts(p) =>
            /\ pc[p] # "raised"
            /\ (/\ pc[p] = "returned"
                /\ Sentences(text[p]) = << >>
                /\ EligibleKeywords(text[p]) = {})
                   => \A k \in Keys : result[p][k] = << >>

\* the empty text, asked for questions of every type, has returned
C12_Witness ==
    \E p \in Procs :
        /\ FourCounts(p) /\ pc[p] = "returned"
        /\ text[p] = << >>
        /\ \A k \in Keys : config[p][k] > 0
        /\ result[p] = NoResult

\* C13: the fill-blank questions of one call have pairwise distinct
\* original sentences, also when a sentence occurs twice in the text.
C13_NoSentenceTwice ==
    \A p \in Procs :
        \A i, j \in DOMAIN result[p].fill_blank :
            i # j => result[p].fill_blank[i].original_sentence
                        # result[p].fill_blank[j].original_sentence

\* the reading step of call p is behind it
ReadingDone(p) == pc[p] = "returned"

\* ref is the first 100 characters of sentence followed by three dots
IsReferenceOf(ref, sentence) ==
    LET n == IF Len(sentence) < 100 THEN Len(sentence) ELSE 100
    IN /\ Len(ref) = n + 3
       /\ \A k \in 1..n : ref[k] = sentence[k]
       /\ \A k \in (n + 1)..(n + 3) : ref[k] = "."

\* C14: generate_reading_comprehension(text, count) returns min(count,
\* number of sentences) questions; the i-th is on the i-th sentence of the
\* text, with the fixed prompt, and its reference_sentence is the first 100
\* characters of that sentence followed by '...', whatever its length.
C14_FirstSentencesInOrder ==
    \A p \in Procs :
        ReadingDone(p) =>
            LET count == config[p].reading_comprehension
                sents == Sentences(text[p])
                out   == result[p].reading_comprehension
            IN /\ Len(out) = (IF count < Len(sents) THEN count ELSE Len(sents))
               /\ \A i \in DOMAIN out :
                     /\ out[i].type = "reading_comprehension"
                     /\ out[i].prompt =
                            << "According to the text, what is the main idea?" >>
                     /\ IsReferenceOf(out[i].reference_sentence, sents[i])

\* a returned call whose first question is on a sentence of more than 100
\* characters and whose second is on a sentence of 3 tokens
C14_Witness ==
    \E p \in Procs :
        /\ ReadingDone(p)
        /\ Len(result[p].reading_comprehension) = 2
        /\ Len(Sentences(text[p])[1]) > 100
        /\ Len(result[p].reading_comprehension[1].reference_sentence) = 103
        /\ Len(Words(Sentences(text[p])[2])) < 8
        /\ Len(result[p].reading_comprehension[2].reference_sentence)
               = Len(Sentences(text[p])[2]) + 3

\* C15: in a text with at least 4 distinct eligible keywords the 4 options
\* of every multiple-choice question are 4 distinct keywords of the text,
\* for every count >= 1; a placeholder distractor_N appears only when the
\* text has fewer than 4 distinct eligible keywords.
C15_PlaceholdersOnlyWhenFewKeywords ==
    \A p \in Procs :
        \A q \in Range(result[p].multiple_choice) :
            /\ Cardinality(EligibleKeywords(text[p])) >= 4 =>
                  /\ Range(q.options) \subseteq EligibleKeywords(text[p])
                  /\ Cardinality(Range(q.options)) = 4
            /\ (\E w \in Range(q.options) : IsPlaceholder(w)) =>
                  Cardinality(EligibleKeywords(text[p])) < 4

\* the characters the normalised text may hold: [A-Za-z0-9 .,!?;:'"-]
NormalChars == Alpha \cup Digits \cup {" "} \cup KeptPunct

\* C16: clean_text returns a string over [A-Za-z0-9 .,!?;:'"-] in which no
\* two whitespace characters are adjacent and which neither begins nor ends
\* with a space.
C16_OnlyNormalCharacters ==
    cleaned.called =>
        LET out == cleaned.out
        IN /\ \A i \in DOMAIN out : out[i] \in NormalChars
           /\ \A i \in 1..(Len(out) - 1) :
                 ~(out[i] \in Whitespace /\ out[i + 1] \in Whitespace)
           /\ out # << >> => out[1] # " " /\ out[Len(out)] # " "

\* a strategy that meets these pages yields nothing that survives clean_text
ProducesNoText(pages) == clean_text(ReadPages(pages, << >>).text) = << >>

\* C17: when pdfplumber raises, on the first page or later, PyPDF2 is tried
\* on the same file; the empty string is returned only if neither strategy
\* produced text; nothing is raised to the caller.
C17_FallbackWheneverFirstRaises ==
    (parsed.called /\ parsed.ret.invoked = "pdf") =>
        /\ parsed.ret.plumber_raised => parsed.ret.pypdf_tried
        /\ parsed.ret.out = << >> =>
              /\ ProducesNoText(parsed.file.plumber)
              /\ ProducesNoText(parsed.file.pypdf)
        /\ parsed.ret.error = "none"

\* the format tags of the specification, with the two aliases
KnownTags == {"pdf", "docx", "pptx", "csv", "excel", "unknown", "doc", "ppt"}

\* C18: extract_text_from_file raises ValueError exactly for the tags
\* outside pdf, docx, pptx, csv, excel, unknown (doc and ppt being aliases),
\* and then no extractor was invoked.
C18_ValueErrorIffUnknownTag ==
    parsed.called =>
        /\ parsed.ret.error = "ValueError" <=> parsed.file_type \notin KnownTags
        /\ parsed.ret.error = "ValueError" => parsed.ret.invoked = "none"

\* C19: no handler invokes generate_all_questions on a text shorter than 50
\* characters, neither at upload nor in a later request that reads the
\* stored extracted_text.
C19_NoSynthesisOnShortText ==
    synthesized.called => Len(synthesized.text) >= MinTextLen

\* what call p returns when it runs alone from the generator state it
\* started in
RunAlone(p) == generate_all_questions(text[p], arg[p], start[p])

\* C20: of two calls whose steps interleave, each returns what it returns
\* when run alone from the generator state it started with.
C20_InterleavedCallsAreIndependent ==
    \A p \in Procs :
        pc[p] = "returned" => result[p] = RunAlone(p).out

\* the multiple-choice loop of call p has begun
MultipleChoiceBegun(p) ==
    /\ pc[p] \in {"multiple_choice_loop", "reading_comprehension", "returned"}
    /\ "multiple_choice" \in DOMAIN config[p]

\* the ranked keyword list the multiple-choice questions of call p draw on:
\* the first 3 * count keywords of the ranking of the text
RankedFor(p) == Take(Ranking(text[p]), 3 * config[p].multiple_choice)

\* the keywords of ranked that differ from k and have fewer than 3 such
\* keywords in front of them
FirstThreeOthers(ranked, k) ==
    {ranked[i] : i \in {i \in DOMAIN ranked :
        /\ ranked[i] # k
        /\ Cardinality({j \in 1..(i - 1) : ranked[j] # k}) < 3}}

\* C21: the distractors of a question on keyword k are the first 3 keywords
\* of the ranked list (of at most 3 * count keywords) that differ from k; if
\* only m < 3 exist, the missing ones are distractor_m, ..., distractor_2;
\* every question has exactly 3 distractors, none equal to k.
C21_DistractorsInRankedOrder ==
    \A p \in Procs :
        MultipleChoiceBegun(p) =>
            \A q \in Range(result[p].multiple_choice) :
                LET others == FirstThreeOthers(RankedFor(p), q.correct)
                    m      == Cardinality(others)
                    distractors ==
                        {i \in DOMAIN q.options : q.options[i] # q.correct}
                IN /\ Len(q.options) = 4
                   /\ Cardinality(distractors) = 3
                   /\ {q.options[i] : i \in distractors}
                          = others \cup {Placeholder(n) : n \in m..2}

\* a question on the second keyword of a ranked list with 4 or more other
\* keywords: its distractors are the first, third and fourth keyword
C21_Witness ==
    \E p \in Procs :
        /\ MultipleChoiceBegun(p)
        /\ Len(RankedFor(p)) >= 5
        /\ \E q \in Range(result[p].multiple_choice) :
              /\ q.correct = RankedFor(p)[2]
              /\ Range(q.options) =
                     {RankedFor(p)[i] : i \in 1..4}

\* the positions of sentence at which the string w begins
StartsOf(sentence, w) ==
    {i \in 1..(Len(sentence) - Len(w) + 1) :
        \A k \in 1..Len(w) : sentence[i + k - 1] = w[k]}

\* C22: the prompt of a fill-blank question is the sentence with the first
\* textual occurrence of the answer replaced by '_____'; every later
\* occurrence and every other character is unchanged.
C22_OnlyFirstOccurrenceReplaced ==
    \A q \in Emitted("fill_blank") :
        LET sentence == q.original_sentence
            w        == q.answer
            starts   == StartsOf(sentence, w)
        IN /\ starts # {}
           /\ Len(q.prompt) = Len(sentence) - Len(w) + 5
           /\ \E i \in starts :
                 /\ \A j \in starts : i <= j
                 /\ \A k \in 1..(i - 1) : q.prompt[k] = sentence[k]
                 /\ \A k \in i..(i + 4) : q.prompt[k] = "_"
                 /\ \A k \in (i + Len(w))..Len(sentence) :
                       q.prompt[k - Len(w) + 5] = sentence[k]

\* a question whose answer stands twice in the sentence as a word, and
\* still once in the prompt
C22_Witness ==
    \E q \in Emitted("fill_blank") :
        /\ Count(Words(q.original_sentence), q.answer) = 2
        /\ Cardinality(StartsOf(q.prompt, q.answer)) = 1

\* the positions of the sentences of t that word_tokenize cuts into more
\* than 8 tokens
Qualifying(t) ==
    {i \in DOMAIN Sentences(t) : Len(Words(Sentences(t)[i])) > 8}

\* the sentence holds an alphabetic word of more than 3 characters
HasContentWord(sentence) ==
    \E w \in Range(Words(sentence)) :
        Len(w) > 3 /\ \A i \in DOMAIN w : w[i] \in Alpha

\* the step that call p takes selects sentences for the fill-blank questions
SelectsSentences(p) ==
    pc[p] = "fill_blank" /\ pc'[p] \notin {"fill_blank", "raised"}

\* the step that call p takes handles one selected sentence
HandlesSentence(p) ==
    pc[p] = "fill_blank_loop" /\ selected'[p] # selected[p]

C23_Step(p) ==
    LET count == config[p].fill_blank
        t     == text[p]
        old   == result[p].fill_blank
        new   == result'[p].fill_blank
    IN /\ SelectsSentences(p) =>
             /\ Len(selected'[p]) = Min(count, Cardinality(Qualifying(t)))
             /\ \A s \in Range(selected'[p]) :
                   Count(selected'[p], s)
                       <= Cardinality({i \in Qualifying(t) : Sentences(t)[i] = s})
             /\ new = << >>
       /\ HandlesSentence(p) =>
             /\ selected'[p] = Tail(selected[p])
             /\ pc'[p] # "raised"
             /\ IF HasContentWord(Head(selected[p]))
                THEN /\ Len(new) = Len(old) + 1
                     /\ SubSeq(new, 1, Len(old)) = old
                     /\ new[Len(new)].original_sentence = Head(selected[p])
                ELSE new = old
       /\ ~SelectsSentences(p) /\ ~HandlesSentence(p) => new = old
       /\ pc'[p] = "fill_blank_loop" <=> selected'[p] # << >>

\* C23: exactly min(count, number of sentences with more than 8 tokens)
\* sentences of the text are selected, all of them such sentences; every
\* selected sentence with an alphabetic word longer than 3 characters yields
\* one question on it, every other selected sentence yields no question and
\* no error, and nothing else adds a fill-blank question.
C23_SelectionAndUnderFill == [][\A p \in Procs : C23_Step(p)]_vars

\* a returned call that was asked for 2 questions on a text with 2 sentences
\* of more than 8 tokens, one of them without a word longer than 3
\* characters: 1 question
C23_Witness ==
    \E p \in Procs :
        /\ pc[p] = "returned"
        /\ config[p].fill_blank = 2
        /\ Cardinality(Qualifying(text[p])) = 2
        /\ \E i \in Qualifying(text[p]) : ~HasContentWord(Sentences(text[p])[i])
        /\ Len(result[p].fill_blank) = 1

\* both calls have returned, and they were made on the same text
BothReturned ==
    pc[1] = "returned" /\ pc[2] = "returned" /\ text[1] = text[2]

\* the two calls agree on the questions of the types whose content is not
\* drawn at random, wherever they were asked the same count of that type
SameContentForSameCount ==
    BothReturned =>
        /\ \A k \in {"vocabulary", "reading_comprehension"} :
              config[1][k] = config[2][k] => result[1][k] = result[2][k]
        /\ config[1].multiple_choice = config[2].multiple_choice =>
              /\ Len(result[1].multiple_choice) = Len(result[2].multiple_choice)
              /\ \A i \in DOMAIN result[1].multiple_choice :
                    LET a == result[1].multiple_choice[i]
                        b == result[2].multiple_choice[i]
                    IN /\ a.correct = b.correct
                       /\ Range(a.options) = Range(b.options)

\* C24: the vocabulary and reading-comprehension lists, and the correct
\* answer and option set of every multiple-choice question, depend only on
\* the text and on the count of their own type, not on the other counts nor
\* on the state of the random generator; no step of a call changes the
\* text or the config the caller passed.
C24_SynthesizersIndependent ==
    [][/\ SameContentForSameCount'
       /\ \A p \in Procs :
             pc[p] # "idle" => text'[p] = text[p] /\ arg'[p] = arg[p]]_vars

\* two returned calls on one text with the same multiple-choice count, other
\* fill-blank counts and other generator states: the same option sets in
\* another order, and other fill-blank questions
C24_Witness ==
    /\ BothReturned
    /\ config[1].multiple_choice = config[2].multiple_choice
    /\ config[1].vocabulary = config[2].vocabulary
    /\ config[1].fill_blank # config[2].fill_blank
    /\ start[1] # start[2]
    /\ result[1].vocabulary # << >>
    /\ result[1].multiple_choice # result[2].multiple_choice
    /\ result[1].fill_blank # result[2].fill_blank

\* this step serves a request to the endpoint
Serves(endpoint) ==
    response'.served # response.served /\ response'.endpoint = endpoint

\* the rows this step adds to quiz_questions
RowsAdded == SubSeq(quiz', Len(quiz) + 1, Len(quiz'))

\* C25: auto_generate_assignment adds exactly one QuizQuestion per generated
\* multiple_choice question, with choices a-d in the generated option order,
\* and none for the questions of other types; questions_generated is the
\* number of rows added; a request that fails (no assignment, no lecture
\* text) adds no row, and neither does any other endpoint.
C25_OneRowPerMultipleChoice ==
    [][/\ Len(quiz') >= Len(quiz) /\ SubSeq(quiz', 1, Len(quiz)) = quiz
       /\ IF Serves("auto_generate_assignment") /\ response'.status = 200
          THEN LET made == synthesized'.out.multiple_choice
               IN /\ Len(RowsAdded) = Len(made)
                  /\ response'.count = Len(RowsAdded)
                  /\ \A i \in DOMAIN made :
                        /\ RowsAdded[i].prompt = made[i].prompt
                        /\ << RowsAdded[i].choice_a, RowsAdded[i].choice_b,
                              RowsAdded[i].choice_c, RowsAdded[i].choice_d >>
                               = made[i].options
          ELSE quiz' = quiz
       /\ Serves("auto_generate_assignment") =>
             response'.status \in {200, 400, 404}]_vars

\* a request that generated fill-blank questions and 2 multiple-choice
\* questions and added 2 rows to the rows of an earlier request
C25_Witness ==
    /\ response.endpoint = "auto_generate_assignment"
    /\ response.status = 200
    /\ synthesized.out.fill_blank # << >>
    /\ Len(synthesized.out.multiple_choice) = 2
    /\ response.count = 2
    /\ Len(quiz) > 2

\* the path of the call this step makes
KeyOfCall == PathOf(spoken'.lang, spoken'.text)

\* C26: a call of text_to_speech whose file exists returns its path without
\* invoking the synthesiser and without touching any file; the synthesiser
\* is invoked only when the file of (lang, hash of text) does not exist, and
\* then no other file changes; the calls that return a path for the same
\* text and lang return the same path; a failure is returned as None and
\* nothing is raised.
C26_SynthesisedOncePerKey ==
    [][/\ spoken'.called /\ ~spoken'.raised
       /\ spoken'.existed <=> KeyOfCall \in DOMAIN audio
       /\ KeyOfCall \in DOMAIN audio =>
             /\ ~spoken'.invoked
             /\ audio' = audio
             /\ spoken'.ret = Some(KeyOfCall)
       /\ spoken'.invoked => KeyOfCall \notin DOMAIN audio
       /\ \A f \in DOMAIN audio : f \in DOMAIN audio' /\ audio'[f] = audio[f]
       /\ DOMAIN audio' \subseteq DOMAIN audio \cup {KeyOfCall}
       /\ spoken'.ret.none \/ spoken'.ret.value \in DOMAIN audio'
       /\ \A a, b \in handed' :
             a.text = b.text /\ a.lang = b.lang => a.path = b.path
      ]_<< audio, spoken, handed >>

\* a call that found the file an earlier call with the same text and lang
\* had made, and returned the same path without synthesising
C26_Witness ==
    /\ spoken.called /\ spoken.existed /\ ~spoken.invoked
    /\ ~spoken.ret.none
    /\ spoken.ret.value \in DOMAIN audio
    /\ audio[spoken.ret.value] = [text |-> spoken.text, complete |-> TRUE]
    /\ Cardinality(DOMAIN audio) >= 2

\* the values of the column `correct`: "A", "B", "C", "D"
AnswerLetters == { << "A" >>, << "B" >>, << "C" >>, << "D" >> }

\* the choice of a row that a letter designates
ChoiceAt(row, letter) ==
    IF letter = << "A" >> THEN row.choice_a
    ELSE IF letter = << "B" >> THEN row.choice_b
    ELSE IF letter = << "C" >> THEN row.choice_c
    ELSE row.choice_d

\* C27: every QuizQuestion row that auto_generate_assignment stores has a
\* `correct` that is one of the letters A, B, C, D, and the choice that the
\* letter designates holds the correct keyword of the generated question.
C27_CorrectIsALetter ==
    /\ \A i \in DOMAIN quiz : quiz[i].correct \in AnswerLetters
    /\ (response.endpoint = "auto_generate_assignment" /\ response.status = 200)
          => LET made == synthesized.out.multiple_choice
                 before == Len(quiz) - Len(made)
             IN \A j \in DOMAIN made :
                   ChoiceAt(quiz[before + j], quiz[before + j].correct)
                       = made[j].correct

\* C28: in every fill-blank question the characters that '_____' replaces
\* are exactly one word token of the sentence, equal to the answer, and
\* never a fragment of a longer word that stands earlier in the sentence.
C28_BlankIsAWholeWord ==
    \A q \in Emitted("fill_blank") :
        LET sentence == q.original_sentence
            at == Find(sentence, q.answer)
        IN /\ at > 0
           /\ Take(q.prompt, at - 1) = Take(sentence, at - 1)
           /\ SubSeq(q.prompt, at, at + 4) = BlankMarker
           /\ IsTokenStart(sentence, at)
           /\ TokenEnd(sentence, at) = at + Len(q.answer) - 1

\* socket ws is registered for username in the mapping a
Member(a, username, ws) == username \in DOMAIN a /\ ws \in a[username]

\* the mappings a and b register the same sockets, but for (username, ws)
SameBut(a, b, username, ws) ==
    \A u \in Usernames, w \in Sockets :
        (u # username \/ w # ws) => (Member(a, u, w) <=> Member(b, u, w))

C29_Step ==
    LET u == wsop'.username
        w == wsop'.ws
    IN /\ wsop'.method = "push" =>
             /\ pushing'.snapshot = Registered(u)
             /\ pushing'.attempted = {}
             /\ SameBut(active, active', "", "")
       /\ wsop'.method = "send_text" =>
             /\ u = pushing.username
             /\ w \in pushing.snapshot \ pushing.attempted
             /\ pushing'.attempted = pushing.attempted \cup {w}
             /\ pushing'.pc = "sending"
             /\ SameBut(active, active', u, w)
             /\ IF wsop'.raised THEN ~Member(active', u, w)
                ELSE Member(active', u, w) <=> Member(active, u, w)
       /\ wsop'.method = "return" =>
             /\ pushing'.attempted = pushing'.snapshot
             /\ ~wsop'.raised
             /\ SameBut(active, active', "", "")
       /\ wsop'.method = "disconnect" =>
             /\ SameBut(active, active', u, w)
             /\ ~Member(active', u, w)
             /\ ~Member(active, u, w) => active' = active

\* C29: push(username, m) attempts every socket registered for username
\* when it began, each once; a socket whose send raises is removed, no
\* other registration changes, the push goes on and returns without
\* raising; a disconnect removes at most the socket named, and changes
\* nothing when the socket or the username is not registered.
C29_PushReachesEverySocket == [][C29_Step]_<< active, pushing, wsop >>

\* a push over 3 sockets has returned: the send to one of them raised and
\* it is gone, the two others were attempted too and are still registered
C29_Witness ==
    /\ pushing.pc = "returned"
    /\ Cardinality(pushing.snapshot) = 3
    /\ pushing.attempted = pushing.snapshot
    /\ Cardinality(pushing.failed) = 1
    /\ pushing.snapshot \cap Registered(pushing.username)
           = pushing.snapshot \ pushing.failed

\* C30: clean_text is idempotent: clean_text(clean_text(s)) = clean_text(s).
C30_CleanTextIdempotent ==
    cleaned.called => clean_text(cleaned.out) = cleaned.out

\* a call that blanked a special character between two words
C30_Witness ==
    /\ cleaned.called
    /\ "#" \in Range(cleaned.input)
    /\ " " \in Range(cleaned.out)
    /\ Len(cleaned.out) = 3

====
